---------------------------- MODULE Spec2Model ----------------------------
(***************************************************************************)
(* rust-asana: the response envelope (schema/response.rs), the schema      *)
(* types it is deserialized into (schema/mod.rs) and the API handle        *)
(* (api/mod.rs).                                                           *)
(*                                                                         *)
(* JSON values (serde_json::Value) are tagged records:                     *)
(*   [k |-> "null"], [k |-> "str", s |-> ..], [k |-> "arr", e |-> <<..>>], *)
(*   [k |-> "obj", f |-> [key |-> value]].                                 *)
(* Typed values (what from_value::<T> builds) are tagged records too:      *)
(*   [k |-> "String", s], [k |-> "Struct", name, f], [k |-> "Vec", e],     *)
(*   [k |-> "None"], [k |-> "Some", v], [k |-> "Value", v].                *)
(***************************************************************************)
EXTENDS Naturals, Sequences, FiniteSets

(* ------------------------------ bounds --------------------------------- *)

\* longest JSON array put in `data`
MaxArr == 2
\* longest `errors` array put in a response text
MaxErrs == 2
\* most url segments appended between two resets of the url
MaxSegs == 2

(* --------------------------- JSON values ------------------------------- *)

JNull == [k |-> "null"]
JStr(s) == [k |-> "str", s |-> s]
JArr(e) == [k |-> "arr", e |-> e]
JObj(f) == [k |-> "obj", f |-> f]

\* sequences over S of length 0..n
SeqUpTo(S, n) == UNION {[1..m -> S] : m \in 0..n}

(* --------------------------- schema types ------------------------------ *)

TString == [t |-> "String"]
TValue == [t |-> "Value"]
TOption(T) == [t |-> "Option", of |-> T]
TVec(T) == [t |-> "Vec", of |-> T]
TStruct(name, fields) == [t |-> "Struct", name |-> name, fields |-> fields]
Field(n, T) == [n |-> n, ty |-> T]

AsanaResource ==
  TStruct("AsanaResource",
          <<Field("gid", TString), Field("resource_type", TString)>>)

UserCompact ==
  TStruct("UserCompact",
          <<Field("gid", TString), Field("resource_type", TString),
            Field("name", TString)>>)

Error ==
  TStruct("Error",
          <<Field("help", TOption(TString)), Field("message", TOption(TString)),
            Field("phrase", TOption(TString))>>)

(* ------------------------- serde deserialization ----------------------- *)

Ok(v) == [ok |-> TRUE, val |-> v]
Fail == [ok |-> FALSE]

\* serde's missing_field: an Option field absent from a map is None, any
\* other field absent is an error
MissingField(T) == IF T.t = "Option" THEN Ok([k |-> "None"]) ELSE Fail

RECURSIVE FromValue(_, _)
\* serde_json::from_value::<T>(v), by the Deserialize impl of T:
\*   String  accepts a JSON string only
\*   Value   accepts anything (and is that value)
\*   Option  null is None, anything else is Some(T from it)
\*   Vec     accepts an array all of whose elements are T
\*   derived struct accepts a map (unknown keys ignored, absent keys by
\*           MissingField) or an array holding exactly the fields in
\*           declaration order
FromValue(T, v) ==
  CASE T.t = "String" ->
         IF v.k = "str" THEN Ok([k |-> "String", s |-> v.s]) ELSE Fail
    [] T.t = "Value" -> Ok([k |-> "Value", v |-> v])
    [] T.t = "Option" ->
         IF v.k = "null" THEN Ok([k |-> "None"])
         ELSE LET r == FromValue(T.of, v)
              IN  IF r.ok THEN Ok([k |-> "Some", v |-> r.val]) ELSE Fail
    [] T.t = "Vec" ->
         IF v.k # "arr" THEN Fail
         ELSE LET rs == [i \in 1..Len(v.e) |-> FromValue(T.of, v.e[i])]
              IN  IF \A i \in 1..Len(v.e) : rs[i].ok
                  THEN Ok([k |-> "Vec",
                           e |-> [i \in 1..Len(v.e) |-> rs[i].val]])
                  ELSE Fail
    [] T.t = "Struct" ->
         LET n == Len(T.fields)
             names == {T.fields[i].n : i \in 1..n}
             fty(x) == (CHOOSE i \in 1..n : T.fields[i].n = x)
         IN  CASE v.k = "obj" ->
                    LET rs == [x \in names |->
                                 IF x \in DOMAIN v.f
                                 THEN FromValue(T.fields[fty(x)].ty, v.f[x])
                                 ELSE MissingField(T.fields[fty(x)].ty)]
                    IN  IF \A x \in names : rs[x].ok
                        THEN Ok([k |-> "Struct", name |-> T.name,
                                 f |-> [x \in names |-> rs[x].val]])
                        ELSE Fail
               [] v.k = "arr" ->
                    IF Len(v.e) # n THEN Fail
                    ELSE LET rs == [i \in 1..n |->
                                      FromValue(T.fields[i].ty, v.e[i])]
                         IN  IF \A i \in 1..n : rs[i].ok
                             THEN Ok([k |-> "Struct", name |-> T.name,
                                      f |-> [x \in names |-> rs[fty(x)].val]])
                             ELSE Fail
               [] OTHER -> Fail


(* ------------------------- response texts ------------------------------ *)

\* A response text is modelled by what serde_json reads from it: not JSON at
\* all, a JSON text that is no object, or an object given as its members in
\* the order they are written (a key may be written twice).
TextInvalid == [k |-> "invalid"]
TextScalar(v) == [k |-> "scalar", v |-> v]
TextObject(m) == [k |-> "object", m |-> m]
Member(key, val) == [key |-> key, val |-> val]

ObjUC ==
  JObj([gid |-> JStr("12345"), resource_type |-> JStr("user"),
        name |-> JStr("Greg Sanchez")])
ObjUC2 ==
  JObj([gid |-> JStr("54321"), resource_type |-> JStr("user"),
        name |-> JStr("Luke Lastname")])
ObjAR == JObj([gid |-> JStr("12345"), resource_type |-> JStr("task")])
ArrSS == JArr(<<JStr("12345"), JStr("task")>>)

ElemValues == {ObjUC, ObjUC2, ArrSS}
DataValues ==
  {JNull, JStr("12345"), ObjUC, ObjAR, ArrSS}
    \cup {JArr(e) : e \in SeqUpTo(ElemValues, MaxArr)}

ErrMsg == JObj([message |-> JStr("project: Missing input")])
ErrFull ==
  JObj([help |-> JStr("read the docs"), message |-> JStr("Not a user"),
        phrase |-> JStr("6 sad squid snuggle softly")])
ErrElems == {ErrMsg, ErrFull}
\* values of the `errors` key that are arrays of error-shaped objects
GoodErrors == {JArr(e) : e \in SeqUpTo(ErrElems, MaxErrs)}
\* values of the `errors` key that are not
BadErrors == {JNull, JArr(<<JStr("oops")>>), JArr(<<JObj([help |-> ObjAR])>>)}

DataPart == {<<>>} \cup {<<Member("data", d)>> : d \in DataValues}
ErrPart(S) == {<<>>} \cup {<<Member("errors", e)>> : e \in S}

\* every data with no error or one; every error list with no data or a user;
\* the ill-formed errors; and the orders, unknown keys and repeated keys
Texts ==
  {TextInvalid, TextScalar(JNull), TextScalar(JStr("12345"))}
    \cup {TextObject(d \o e) :
            d \in DataPart,
            e \in ErrPart({JArr(<<>>)} \cup {JArr(<<x>>) : x \in ErrElems})}
    \cup {TextObject(d \o e) :
            d \in {<<>>, <<Member("data", ObjUC)>>},
            e \in ErrPart(GoodErrors \cup BadErrors)}
    \cup {TextObject(m) :
            m \in {<<Member("errors", JArr(<<ErrMsg>>)), Member("data", ObjUC)>>,
                   <<Member("data", ObjUC), Member("next_page", JNull)>>,
                   <<Member("next_page", JNull)>>,
                   <<Member("data", ObjUC), Member("data", ObjUC2)>>,
                   <<Member("errors", JArr(<<>>)),
                     Member("errors", JArr(<<ErrMsg>>))>>}}

(* ----------------------------- Response -------------------------------- *)

\* #[serde(default)] pub data: serde_json::Value
DefaultData == JNull
\* #[serde(default)] pub errors: Vec<schema::Error>
DefaultErrors == <<>>

MkResponse(data, errors) == [data |-> data, errors |-> errors]

\* a field left out of the text: without #[serde(default)] it is a
\* missing_field error
FieldRequired(present, parsed, default) == IF present THEN parsed ELSE Fail

\* a field marked #[serde(default)]: Default::default() when the key is absent
FieldOrDefault(present, parsed, default) ==
  IF present THEN parsed ELSE Ok(default)

\* serde_json::from_str::<Response>(text), by the derived Deserialize of
\* Response: the text must be JSON and an object; each known key may occur
\* once (duplicate_field otherwise); unknown keys are ignored; `data` is
\* taken as it is, `errors` must be a Vec<Error>; an absent key takes its
\* default.
ParseResponse(text) ==
  IF text.k # "object" THEN Fail
  ELSE LET m == text.m
           at(key) == {i \in 1..Len(m) : m[i].key = key}
           the(key) == m[CHOOSE i \in at(key) : TRUE].val
       IN  IF Cardinality(at("data")) > 1 \/ Cardinality(at("errors")) > 1
           THEN Fail
           ELSE LET errs == FieldOrDefault(at("errors") # {},
                                           FromValue(TVec(Error), the("errors")),
                                           [k |-> "Vec", e |-> DefaultErrors])
                    data == FieldOrDefault(at("data") # {},
                                           FromValue(TValue, the("data")),
                                           [k |-> "Value", v |-> DefaultData])
                IN  IF errs.ok /\ data.ok
                    THEN Ok(MkResponse(data.val.v, errs.val.e))
                    ELSE Fail

\* into with the two steps swapped: data is deserialized first and the
\* errors are looked at only when that failed
IntoDataFirst(resp, T) ==
  LET r == FromValue(T, resp.data)
  IN  IF r.ok THEN [ok |-> TRUE, val |-> r.val, deser |-> TRUE]
      ELSE [ok |-> FALSE, errs |-> resp.errors, deser |-> TRUE]

\* into that keeps the cause of a failed deserialization as an Error
IntoKeepsCause(resp, T) ==
  IF Len(resp.errors) > 0
  THEN [ok |-> FALSE, errs |-> resp.errors, deser |-> FALSE]
  ELSE LET r == FromValue(T, resp.data)
       IN  IF r.ok THEN [ok |-> TRUE, val |-> r.val, deser |-> TRUE]
           ELSE [ok |-> FALSE, deser |-> TRUE,
                 errs |-> <<[k |-> "Struct", name |-> "Error",
                             f |-> [help |-> [k |-> "None"],
                                    message |-> [k |-> "Some",
                                                 v |-> [k |-> "String",
                                                        s |-> "invalid type"]],
                                    phrase |-> [k |-> "None"]]]>>]

\* Response::into: the errors are returned before `data` is looked at;
\* `deser` records whether from_value ran on `data`
Into(resp, T) ==
  IF Len(resp.errors) > 0
  THEN [ok |-> FALSE, errs |-> resp.errors, deser |-> FALSE]
  ELSE LET r == FromValue(T, resp.data)
       IN  IF r.ok THEN [ok |-> TRUE, val |-> r.val, deser |-> TRUE]
           ELSE [ok |-> FALSE, errs |-> <<>>, deser |-> TRUE]

\* value that gives nothing once the envelope carries errors
ValueUnlessErrors(resp, T) ==
  IF Len(resp.errors) > 0 THEN Fail ELSE FromValue(T, resp.data)

\* value that unwraps the first element of an array
ValueLenient(resp, T) ==
  IF resp.data.k = "arr" /\ Len(resp.data.e) > 0
  THEN FromValue(T, resp.data.e[1])
  ELSE FromValue(T, resp.data)

\* Response::value: from_value on a clone of data, the failure dropped
Value(resp, T) == FromValue(T, resp.data)

\* errors without the emptiness test
ErrorsAlways(resp) == Ok([k |-> "Vec", e |-> resp.errors])

\* Response::errors
Errors(resp) ==
  IF Len(resp.errors) > 0 THEN Ok([k |-> "Vec", e |-> resp.errors]) ELSE Fail

\* the outcome of values() with `vec`, which records whether from_value ran
\* on data as a Vec<T>
Traced(r, vec) ==
  IF r.ok THEN [ok |-> TRUE, val |-> r.val, vec |-> vec]
  ELSE [ok |-> FALSE, vec |-> vec]

\* values with the two attempts swapped
ValuesVectorFirst(resp, T) ==
  LET many == FromValue(TVec(T), resp.data)
      one == FromValue(T, resp.data)
  IN  IF many.ok THEN Traced(many, TRUE)
      ELSE IF one.ok THEN Traced(Ok([k |-> "Vec", e |-> <<one.val>>]), TRUE)
           ELSE Traced(Fail, TRUE)

\* values without the second attempt
ValuesSingleOnly(resp, T) ==
  LET one == FromValue(T, resp.data)
  IN  IF one.ok THEN Traced(Ok([k |-> "Vec", e |-> <<one.val>>]), FALSE)
      ELSE Traced(Fail, FALSE)

\* values with unwrap_or_default on the second attempt
ValuesOrEmpty(resp, T) ==
  LET one == FromValue(T, resp.data)
      many == FromValue(TVec(T), resp.data)
  IN  IF one.ok THEN Traced(Ok([k |-> "Vec", e |-> <<one.val>>]), FALSE)
      ELSE IF many.ok THEN Traced(many, TRUE)
           ELSE Traced(Ok([k |-> "Vec", e |-> <<>>]), TRUE)

\* Response::values: the single value first, the vector only after it failed
Values(resp, T) ==
  LET one == Value(resp, T)
  IN  IF one.ok THEN Traced(Ok([k |-> "Vec", e |-> <<one.val>>]), FALSE)
      ELSE Traced(FromValue(TVec(T), resp.data), TRUE)

\* a read that takes data out of the Response (std::mem::take)
AfterTake(resp) == [resp EXCEPT !.data = JNull]

\* what a call through &self leaves in the Response (value, errors and
\* values work on clones)
AfterBorrow(resp) == resp

(* -------------------------------- API ---------------------------------- *)

\* pub const BASE_URL
BASE_URL == "https://app.asana.com"

\* API::from_token: the token copied into pat, the url at BASE_URL.  A url
\* is the sequence of the pieces concatenated into it.
FromToken(token) == [pat |-> token, url |-> <<BASE_URL>>]

\* API::token
Token(api) == api.pat

\* API::request: self.url += segment
RequestUrl(u, seg) == Append(u, seg)

\* a GET built without bearer_auth
BuildGetNoAuth(api) == [url |-> api.url, bearer |-> ""]

\* the GET that API::get builds: .get(&self.url).bearer_auth(&self.pat)
BuildGet(api) == [url |-> api.url, bearer |-> api.pat]

\* API::get leaves pat alone on every path
PatAfterGet(api) == api.pat

\* API::get: `self.url = format!("{}", BASE_URL)` is reached only when send,
\* text and from_str all succeeded; each `?` returns before it
UrlAfterGet(api, ok) == IF ok THEN <<BASE_URL>> ELSE api.url

(* ------------------------------- state --------------------------------- *)

VARIABLES
  text,    \* the response text handed to serde_json::from_str
  resp,    \* the Response: not parsed yet, failed to parse, held, or moved
  first,   \* an earlier extraction call on resp and its result (observer)
  last,    \* the latest extraction call on resp and its result
  given,   \* the token the caller passed to API::from_token
  api,     \* the API struct: pat and url
  sent,    \* the latest GET handed to the transport
  ret,     \* how the latest API::get returned
  pending  \* the segments passed to request() since the previous get()

vars == <<text, resp, first, last, given, api, sent, ret, pending>>
respVars == <<text, resp, first, last>>
apiVars == <<given, api, sent, ret, pending>>

NoCall == [op |-> "none"]
Unparsed == [st |-> "unparsed"]
ParseErr == [st |-> "parse_error"]
Moved == [st |-> "moved"]
Held(r) == [st |-> "held", r |-> r]

\* the types callers extract into: two resource structs and the vector type
\* the tests pass to into()
Targets == {UserCompact, AsanaResource, TVec(UserCompact)}
Readers == {"r1", "r2"}
Tokens == {"my token", "invalid_token"}
Segments == {"/users", "/me"}
\* bodies the transport may deliver
Bodies ==
  {TextInvalid, TextObject(<<Member("data", ObjUC)>>),
   TextObject(<<Member("errors", JArr(<<ErrMsg>>))>>),
   TextObject(<<Member("errors", JNull)>>)}

Call(op, T, by, res) == [op |-> op, ty |-> T, by |-> by, res |-> res]

\* the observer either keeps what it watches or starts with this call
Watch(c) ==
  IF first = NoCall THEN {NoCall, c} ELSE {first}

(* ------------------------------ actions -------------------------------- *)

\* serde_json::from_str::<Response>(&text)
Parse ==
  /\ resp = Unparsed
  /\ LET r == ParseResponse(text)
     IN  resp' = IF r.ok THEN Held(r.val) ELSE ParseErr
  /\ UNCHANGED <<text, first, last, apiVars>>

\* resp.value::<T>()
CallValue(by, T) ==
  /\ resp.st = "held"
  /\ LET c == Call("value", T, by, Value(resp.r, T))
     IN  /\ last' = c
         /\ first' \in Watch(c)
  /\ resp' = Held(AfterBorrow(resp.r))
  /\ UNCHANGED <<text, apiVars>>

\* resp.values::<T>()
CallValues(by, T) ==
  /\ resp.st = "held"
  /\ LET c == Call("values", T, by, Values(resp.r, T))
     IN  /\ last' = c
         /\ first' \in Watch(c)
  /\ resp' = Held(AfterBorrow(resp.r))
  /\ UNCHANGED <<text, apiVars>>

\* resp.errors()
CallErrors(by) ==
  /\ resp.st = "held"
  /\ LET c == Call("errors", TVec(Error), by, Errors(resp.r))
     IN  /\ last' = c
         /\ first' \in Watch(c)
  /\ resp' = Held(AfterBorrow(resp.r))
  /\ UNCHANGED <<text, apiVars>>

\* resp.into::<T>(): takes self, so the Response is gone afterwards
CallInto(by, T) ==
  /\ resp.st = "held"
  /\ last' = Call("into", T, by, Into(resp.r, T))
  /\ resp' = Moved
  /\ UNCHANGED <<text, first, apiVars>>

\* api.request(segment)
Request(seg) ==
  /\ Len(api.url) <= MaxSegs
  /\ api' = [api EXCEPT !.url = RequestUrl(api.url, seg)]
  /\ pending' = Append(pending, seg)
  /\ UNCHANGED <<given, sent, ret, respVars>>

\* api.get() when send() fails
GetSendErr ==
  /\ sent' = BuildGet(api)
  /\ ret' = "send_error"
  /\ api' = [pat |-> PatAfterGet(api), url |-> UrlAfterGet(api, FALSE)]
  /\ pending' = <<>>
  /\ UNCHANGED <<given, respVars>>

\* api.get() when the body cannot be read
GetTextErr ==
  /\ sent' = BuildGet(api)
  /\ ret' = "text_error"
  /\ api' = [pat |-> PatAfterGet(api), url |-> UrlAfterGet(api, FALSE)]
  /\ pending' = <<>>
  /\ UNCHANGED <<given, respVars>>

\* api.get() when a body arrives: parsed into a Response or a parse error
GetBody(body) ==
  /\ sent' = BuildGet(api)
  /\ text' = body
  /\ LET r == ParseResponse(body)
     IN  /\ resp' = IF r.ok THEN Held(r.val) ELSE ParseErr
         /\ ret' = IF r.ok THEN "ok" ELSE "parse_error"
         /\ api' = [pat |-> PatAfterGet(api), url |-> UrlAfterGet(api, r.ok)]
  /\ first' = NoCall
  /\ last' = NoCall
  /\ pending' = <<>>
  /\ UNCHANGED given

(* --------------------------- specifications ---------------------------- *)

\* a response text about to be parsed and read
Init ==
  /\ text \in Texts
  /\ resp = Unparsed
  /\ first = NoCall
  /\ last = NoCall
  /\ given = "my token"
  /\ api = FromToken(given)
  /\ sent = NoCall
  /\ ret = "none"
  /\ pending = <<>>

Next ==
  \/ Parse
  \/ \E by \in Readers, T \in Targets : CallValue(by, T)
  \/ \E by \in Readers, T \in Targets : CallValues(by, T)
  \/ \E by \in Readers : CallErrors(by)
  \/ \E by \in Readers, T \in Targets : CallInto(by, T)

Spec == Init /\ [][Next]_vars

\* an API handle right after API::from_token(given)
InitAPI ==
  /\ given \in Tokens
  /\ api = FromToken(given)
  /\ sent = NoCall
  /\ ret = "none"
  /\ pending = <<>>
  /\ text = TextInvalid
  /\ resp = Unparsed
  /\ first = NoCall
  /\ last = NoCall

NextAPI ==
  \/ \E seg \in Segments : Request(seg)
  \/ GetSendErr
  \/ GetTextErr
  \/ \E body \in Bodies : GetBody(body)

SpecAPI == InitAPI /\ [][NextAPI]_vars

(* ------------------------- vocabulary of the claims -------------------- *)

\* the envelope the text parses to (the Response that into() consumed)
Envelope == ParseResponse(text).val

Members(t) == IF t.k = "object" THEN t.m ELSE <<>>
KeyCount(t, key) ==
  Cardinality({i \in 1..Len(Members(t)) : Members(t)[i].key = key})
HasKey(t, key) == KeyCount(t, key) > 0

\* a JSON string or null
StrOrNull(v) == v.k \in {"str", "null"}
\* an object whose help, message and phrase, where written, are strings or null
ErrorShaped(v) ==
  /\ v.k = "obj"
  /\ \A x \in DOMAIN v.f \cap {"help", "message", "phrase"} : StrOrNull(v.f[x])
\* an array of error-shaped objects
IsErrorList(v) ==
  /\ v.k = "arr"
  /\ \A i \in 1..Len(v.e) : ErrorShaped(v.e[i])
\* the text writes an `errors` key whose value is no such array
IllFormedErrors(t) ==
  \E i \in 1..Len(Members(t)) :
    Members(t)[i].key = "errors" /\ ~IsErrorList(Members(t)[i].val)

ArrayOfObjects(v) ==
  /\ v.k = "arr"
  /\ \A i \in 1..Len(v.e) : v.e[i].k = "obj"
\* an array each of whose elements deserializes to T
ArrayOfT(v, T) ==
  /\ v.k = "arr"
  /\ \A i \in 1..Len(v.e) : FromValue(T, v.e[i]).ok
TypedElems(v, T) == [i \in 1..Len(v.e) |-> FromValue(T, v.e[i]).val]

TypedStr(x) == [k |-> "String", s |-> x]
\* the UserCompact of the spec's scenario
Greg ==
  [k |-> "Struct", name |-> "UserCompact",
   f |-> [gid |-> TypedStr("12345"), resource_type |-> TypedStr("user"),
          name |-> TypedStr("Greg Sanchez")]]
Luke ==
  [k |-> "Struct", name |-> "UserCompact",
   f |-> [gid |-> TypedStr("54321"), resource_type |-> TypedStr("user"),
          name |-> TypedStr("Luke Lastname")]]
\* the Error of `{"message": "project: Missing input"}`
MissingInput ==
  [k |-> "Struct", name |-> "Error",
   f |-> [help |-> [k |-> "None"],
          message |-> [k |-> "Some", v |-> TypedStr("project: Missing input")],
          phrase |-> [k |-> "None"]]]

(* ------------------------------- claims -------------------------------- *)

\* C1: whenever into::<T>() ran on an envelope whose errors list is not
\* empty, whatever data holds and whatever T is, it returned Err with exactly
\* that list, in order, and from_value never ran on data.
C1_IntoReturnsErrorsFirst ==
  (last.op = "into" /\ Len(Envelope.errors) > 0) =>
    /\ ~last.res.ok
    /\ last.res.errs = Envelope.errors
    /\ ~last.res.deser

\* C1 happens: into::<UserCompact>() on errors [e1, e2] beside a data that
\* is a UserCompact
C1_Witness ==
  /\ last.op = "into"
  /\ last.ty = UserCompact
  /\ Envelope.data = ObjUC
  /\ Len(Envelope.errors) = 2
  /\ Envelope.errors[1] = MissingInput
  /\ Envelope.errors[2] # MissingInput
  /\ last.res.errs = Envelope.errors

\* the typed sequence s as values() hands it back
SomeVec(s) == [k |-> "Vec", e |-> s]

\* C2: whenever values::<T>() ran on a data that deserializes as a single T
\* with result v, it returned Some([v]), also when data deserializes as a
\* Vec<T> too; it tried data as a Vec<T> only when the single attempt failed.
C2_ValuesSingleFirst ==
  (last.op = "values") =>
    /\ FromValue(last.ty, resp.r.data).ok =>
         /\ last.res.ok
         /\ last.res.val = SomeVec(<<FromValue(last.ty, resp.r.data).val>>)
    /\ last.res.vec <=> ~FromValue(last.ty, resp.r.data).ok

\* C2 happens on a data that is both a single T and a Vec<T>
C2_Witness ==
  /\ last.op = "values"
  /\ FromValue(last.ty, resp.r.data).ok
  /\ FromValue(TVec(last.ty), resp.r.data).ok
  /\ last.res.ok
  /\ Len(last.res.val.e) = 1
  /\ ~last.res.vec

\* C3 as claimed: whenever values::<T>() ran on an array of n >= 0 elements
\* each of which deserializes to T, it returned Some of exactly those n typed
\* elements in order (Some([]) for the empty array), for every T.
C3_Original ==
  (last.op = "values" /\ ArrayOfT(resp.r.data, last.ty)) =>
    /\ last.res.ok
    /\ last.res.val = SomeVec(TypedElems(resp.r.data, last.ty))

\* C3 amended: the same, for the arrays that do not themselves deserialize as
\* a single T; an array that does (the empty array for T = Vec<U>) comes back
\* as the one-element sequence holding it.
C3_ValuesOfArray ==
  (last.op = "values" /\ ArrayOfT(resp.r.data, last.ty)) =>
    /\ last.res.ok
    /\ last.res.val =
         IF FromValue(last.ty, resp.r.data).ok
         THEN SomeVec(<<FromValue(last.ty, resp.r.data).val>>)
         ELSE SomeVec(TypedElems(resp.r.data, last.ty))

\* C3 happens: values::<UserCompact>() on [Greg, Luke] gave the two in order
C3_Witness ==
  /\ last.op = "values"
  /\ last.ty = UserCompact
  /\ resp.r.data = JArr(<<ObjUC, ObjUC2>>)
  /\ last.res.ok
  /\ last.res.val = SomeVec(<<Greg, Luke>>)

\* C4: values::<T>() returned None exactly when data deserializes neither as
\* a T nor as a Vec<T>; it returned None for a resource struct T when the
\* text carries errors and no data key, and when data is a JSON string.
C4_ValuesNoneIffNeither ==
  (last.op = "values") =>
    /\ ~last.res.ok <=>
         (~FromValue(last.ty, resp.r.data).ok
            /\ ~FromValue(TVec(last.ty), resp.r.data).ok)
    /\ (last.ty.t = "Struct" /\ ~HasKey(text, "data") /\ HasKey(text, "errors"))
         => ~last.res.ok
    /\ (last.ty.t = "Struct" /\ resp.r.data.k = "str") => ~last.res.ok

\* C4 happens: values::<UserCompact>() on an errors-only envelope gave None
C4_Witness ==
  /\ last.op = "values"
  /\ last.ty = UserCompact
  /\ ~HasKey(text, "data")
  /\ resp.r.errors = <<MissingInput>>
  /\ ~last.res.ok

\* a text that is a JSON object writing neither `data` nor `errors` twice
WellKeyed(t) ==
  /\ t.k = "object"
  /\ KeyCount(t, "data") <= 1
  /\ KeyCount(t, "errors") <= 1

Parsed == resp.st \in {"held", "parse_error"}

\* C5 as claimed, read on the texts that are one JSON object (the input 4.1
\* gives to parsing): a text without the errors key parses, to empty errors
\* (errors() absent); a text without the data key parses, to data null;
\* parsing fails only when errors is not an array of error-shaped objects.
C5_Original ==
  (Parsed /\ text.k = "object") =>
    /\ ~HasKey(text, "errors") =>
         (resp.st = "held" /\ resp.r.errors = <<>> /\ Errors(resp.r) = Fail)
    /\ (~HasKey(text, "data") /\ ~IllFormedErrors(text)) =>
         (resp.st = "held" /\ resp.r.data = JNull)
    /\ (resp.st = "parse_error") => IllFormedErrors(text)

\* C5 amended: the same for the texts that are one JSON object writing
\* neither key twice; parsing fails only on a text that is not JSON, is not
\* an object, writes data or errors twice, or whose errors is ill-formed.
C5_MissingKeysDefault ==
  Parsed =>
    /\ (WellKeyed(text) /\ ~HasKey(text, "errors")) =>
         (resp.st = "held" /\ resp.r.errors = <<>> /\ Errors(resp.r) = Fail)
    /\ (WellKeyed(text) /\ ~HasKey(text, "data") /\ ~IllFormedErrors(text)) =>
         (resp.st = "held" /\ resp.r.data = JNull)
    /\ (resp.st = "parse_error") =>
         (~WellKeyed(text) \/ IllFormedErrors(text))

\* C5 happens: an object with neither key parsed to {data: null, errors: []}
C5_Witness ==
  /\ text = TextObject(<<Member("next_page", JNull)>>)
  /\ resp = Held(MkResponse(JNull, <<>>))

\* C6: whenever errors() ran it returned Some(list) with the envelope's own
\* list if that list is not empty and None if it is empty, whatever data
\* holds; it has no other outcome.
C6_ErrorsAccessor ==
  (last.op = "errors") =>
    /\ last.res.ok <=> (Len(resp.r.errors) > 0)
    /\ last.res.ok => last.res.val = [k |-> "Vec", e |-> resp.r.errors]
    /\ ~last.res.ok => last.res = Fail

\* C6 happens: errors() gave the two errors in order beside a non-null data
C6_Witness ==
  /\ last.op = "errors"
  /\ resp.r.data = ObjUC
  /\ last.res.ok
  /\ Len(last.res.val.e) = 2
  /\ last.res.val.e[1] = MissingInput
  /\ last.res.val.e[2] # MissingInput

\* C7 as claimed: on an envelope with errors and a data that deserializes to
\* T, none of into::<T>, value::<T>, values::<T> returned the typed data.
C7_Original ==
  (/\ last.op \in {"into", "value", "values"}
   /\ Len(Envelope.errors) > 0
   /\ FromValue(last.ty, Envelope.data).ok) => ~last.res.ok

\* C7 amended: on such an envelope only into::<T> withholds the typed data;
\* value::<T> returns it and values::<T> returns the sequence holding it.
C7_OnlyIntoEnforces ==
  (/\ last.op \in {"into", "value", "values"}
   /\ Len(Envelope.errors) > 0
   /\ FromValue(last.ty, Envelope.data).ok) =>
    /\ last.op = "into" => ~last.res.ok
    /\ last.op = "value" => last.res = FromValue(last.ty, Envelope.data)
    /\ last.op = "values" =>
         /\ last.res.ok
         /\ last.res.val = SomeVec(<<FromValue(last.ty, Envelope.data).val>>)

\* C7 happens: value::<UserCompact>() gave Greg from an envelope with errors
C7_Witness ==
  /\ last.op = "value"
  /\ Len(resp.r.errors) > 0
  /\ last.res = Ok(Greg)

\* C8 as claimed: value::<T>() returned the T whenever data deserializes to
\* T and None whenever data is a (non-empty) array of objects, for every T,
\* the sequence types included.
C8_Original ==
  (last.op = "value") =>
    /\ FromValue(last.ty, resp.r.data).ok =>
         last.res = FromValue(last.ty, resp.r.data)
    /\ (ArrayOfObjects(resp.r.data) /\ Len(resp.r.data.e) > 0) =>
         last.res = Fail

\* C8 amended: None on an array of objects holds for the resource struct
\* types; for a sequence type Vec<U> value() returns the whole array typed,
\* whenever every element deserializes to U.
C8_ValueSingle ==
  (last.op = "value") =>
    /\ FromValue(last.ty, resp.r.data).ok =>
         last.res = FromValue(last.ty, resp.r.data)
    /\ (ArrayOfObjects(resp.r.data) /\ last.ty.t = "Struct") => last.res = Fail
    /\ (ArrayOfObjects(resp.r.data) /\ last.ty.t = "Vec"
          /\ ArrayOfT(resp.r.data, last.ty.of)) =>
         last.res = Ok(SomeVec(TypedElems(resp.r.data, last.ty.of)))

\* C8 happens: value::<UserCompact>() gave None on an array of two users
C8_Witness ==
  /\ last.op = "value"
  /\ last.ty = UserCompact
  /\ resp.r.data = JArr(<<ObjUC, ObjUC2>>)
  /\ last.res = Fail

\* C9: value, values and errors leave the Response as it was parsed, and a
\* call returns what an earlier call of the same operation and target type
\* on this Response returned, whichever reader made either call.
C9_ReadsAreIdempotent ==
  /\ resp.st = "held" => resp.r = Envelope
  /\ (first # NoCall /\ last.op = first.op /\ last.ty = first.ty) =>
       last.res = first.res

\* C9 happens: a second reader repeated the values::<UserCompact>() of
\* another reader and got the same two users
C9_Witness ==
  /\ first # NoCall
  /\ first.op = "values"
  /\ last.op = "values"
  /\ first.ty = UserCompact
  /\ last.ty = UserCompact
  /\ first.by # last.by
  /\ last.res.ok
  /\ last.res.val = SomeVec(<<Greg, Luke>>)

\* C10: pat is the token given to from_token after any run of request() and
\* get(), failed or not, and every GET handed to the transport carries it.
C10_TokenKept ==
  /\ Token(api) = given
  /\ sent # NoCall => sent.bearer = given

\* C10 happens: a GET went out with the token after a get() that failed and
\* one that succeeded
C10_Witness ==
  /\ given = "invalid_token"
  /\ ret = "parse_error"
  /\ Len(api.url) = 3
  /\ sent.bearer = given
  /\ Token(api) = given

\* C11: the url is BASE_URL followed by exactly the segments passed to
\* request() since the previous get(), in call order; so right after any
\* get(), returned Ok or Err, it is BASE_URL alone, and no get() targets a
\* segment left over from an earlier request.
C11_UrlResetByEveryGet == api.url = <<BASE_URL>> \o pending

\* C12: on an envelope with no errors, into::<T>() returned Ok(v) exactly
\* when an earlier value::<T>() on the same Response returned Some(v); when
\* data does not deserialize to T, value gave None and into gave Err with an
\* empty error list.
C12_IntoAgreesWithValue ==
  (/\ last.op = "into"
   /\ Len(Envelope.errors) = 0
   /\ first # NoCall
   /\ first.op = "value"
   /\ first.ty = last.ty) =>
    /\ last.res.ok <=> first.res.ok
    /\ last.res.ok => last.res.val = first.res.val
    /\ ~FromValue(last.ty, Envelope.data).ok =>
         (first.res = Fail /\ ~last.res.ok /\ last.res.errs = <<>>)

\* C12 happens: a `data` with no name is no UserCompact: value gave None and
\* into gave Err([])
C12_Witness ==
  /\ last.op = "into"
  /\ last.ty = UserCompact
  /\ first # NoCall
  /\ first.op = "value"
  /\ first.ty = UserCompact
  /\ Envelope.data = ObjAR
  /\ Len(Envelope.errors) = 0
  /\ first.res = Fail
  /\ last.res = [ok |-> FALSE, errs |-> <<>>, deser |-> TRUE]

=============================================================================
